---- MODULE Spec2Model ----
(***************************************************************************)
(* Model of zerver/management/commands/register_server.py: one invocation  *)
(* of the register_server management command (Command.handle and           *)
(* Command._request_push_notification_bouncer_url).                        *)
(*                                                                         *)
(* Text is modelled as a sequence of tokens, so that Python's string       *)
(* concatenation is sequence concatenation.  The consent answer is a       *)
(* sequence of one-character strings, so that str.lower() acts character   *)
(* by character.  Secret keys are records [isNone, len, id]: two keys are  *)
(* the same string exactly when length and id agree.                       *)
(***************************************************************************)
EXTENDS Integers, Sequences, FiniteSets, TLC

VARIABLES
    DEVELOPMENT,                    \* settings.DEVELOPMENT
    requiredSettingsSet,            \* whether check_config() finds every required setting
    ZULIP_ORG_ID,                   \* settings.ZULIP_ORG_ID
    ZULIP_ORG_KEY,                  \* settings.ZULIP_ORG_KEY
    PUSH_NOTIFICATION_BOUNCER_URL,  \* settings.PUSH_NOTIFICATION_BOUNCER_URL
    configuredBouncerUrl,           \* PUSH_NOTIFICATION_BOUNCER_URL as configured, before handle() ran
    options,                        \* parsed command line flags
    pc,                             \* position in handle()
    request,                        \* the request dict of handle()
    out,                            \* what has been printed to stdout, in order
    reads,                          \* the lines input() has returned, in order
    posts,                          \* the calls session.post() has received, in order
    response,                       \* the Response session.post() returned
    persistCalls,                   \* the crudini calls made, in order
    secretsFile,                    \* secrets.zulip_org_key as stored in SECRETS_FILENAME
    err,                            \* the exception that left handle(), if any
    exit                            \* exit status of the process, -1 while running

vars == <<DEVELOPMENT, requiredSettingsSet, ZULIP_ORG_ID, ZULIP_ORG_KEY,
          PUSH_NOTIFICATION_BOUNCER_URL, configuredBouncerUrl, options, pc, request, out, reads,
          posts, response, persistCalls, secretsFile, err, exit>>

settingsVars == <<DEVELOPMENT, requiredSettingsSet, ZULIP_ORG_ID, ZULIP_ORG_KEY,
                  configuredBouncerUrl, options>>

----
\* Bounds of the model.

\* Longest consent answer typed at the prompt.
MaxInputLen == 3

\* Number of distinct 64-character strings the random source can produce.
NumKeys == 2

----
\* Values.

\* get_random_string(64)
KeyLength == 64

\* Python's None and a present string value.
None == [isNone |-> TRUE, s |-> <<>>]

Some(s) == [isNone |-> FALSE, s |-> s]

Truthy_NotNone(x) == ~x.isNone

\* Python truthiness of an optional string: None and "" are falsy.
Truthy(x) == ~x.isNone /\ x.s # <<>>

NoKey == [isNone |-> TRUE, len |-> 0, id |-> 0]

EmptyKey == [isNone |-> FALSE, len |-> 0, id |-> 0]

Key(n, i) == [isNone |-> FALSE, len |-> n, id |-> i]

KeyTruthy(k) == ~k.isNone /\ k.len > 0

\* django.utils.crypto.get_random_string(length): any string of that length.
get_random_string(length) == { Key(length, i) : i \in 1..NumKeys }

EXTERNAL_URI_SCHEME == <<"https://">>

EXTERNAL_HOST == <<"zulip.example.com">>

ZULIP_ADMINISTRATOR == <<"admin@example.com">>

SECRETS_FILENAME == IF DEVELOPMENT THEN <<"zproject/dev-secrets.conf">>
                    ELSE <<"/etc/zulip/zulip-secrets.conf">>

RegisterPath == <<"/api/v1/remotes/server/register">>

----
\* Messages.

MissingOrgIdMsg == <<"Missing zulip_org_id; run scripts/setup/generate_secrets.py to generate.">>

MissingOrgKeyMsg == <<"Missing zulip_org_key; run scripts/setup/generate_secrets.py to generate.">>

MissingBouncerUrlMsg == <<"Please uncomment PUSH_NOTIFICATION_BOUNCER_URL in /etc/zulip/settings.py (remove the '#')">>

RequiredSettingMsg == <<"Error: You must set a required setting in /etc/zulip/settings.py.">>

DisclosureMsg(req) ==
    <<"This command registers your server for the Mobile Push Notifications Service. * hostname: ">>
    \o req.hostname \o <<" * contact email address: ">> \o req.contact_email
    \o <<" * Metadata about each organization hosted by the server. Terms of Service: <https://zulip.com/policies/terms>">>

PromptMsg == <<"Do you want to agree to the Zulip Terms of Service and proceed? [Y/n] ">>

BlankMsg == <<"">>

RegisteredMsg == <<"Your server is now registered for the Mobile Push Notification Service! Return to the documentation for next steps.">>

UpdatingMsg == <<"Success! Updating ">> \o SECRETS_FILENAME \o <<" with the new key...">>

UpdatedMsg == <<"Mobile Push Notification Service registration successfully updated!">>

NetworkErrorMsg_NoUrl(base) ==
    <<"Network error connecting to push notifications service">>

NetworkErrorMsg(base) ==
    <<"Network error connecting to push notifications service (">> \o base \o <<")">>

NoError == [type |-> "none", msg |-> <<>>]

CommandError(msg) == [type |-> "CommandError", msg |-> msg]

----
\* The consent answer.

Chars == {"y", "Y", "e", "E", "s", "S", "n", "o", " "}

\* Every line of at most MaxInputLen characters.
InputLines == UNION { [1..n -> Chars] : n \in 0..MaxInputLen }

LowerChar(c) ==
    CASE c = "Y" -> "y"
      [] c = "E" -> "e"
      [] c = "S" -> "s"
      [] OTHER -> c

Lower_Identity(line) == line

\* str.lower()
Lower(line) == [i \in 1..Len(line) |-> LowerChar(line[i])]

ConsentAccepts_Any(tos_prompt) == TRUE

\* The condition of lines 86-88, without its negation.
ConsentAccepts(tos_prompt) ==
    \/ Lower(tos_prompt) = <<"y">>
    \/ Lower(tos_prompt) = <<>>
    \/ Lower(tos_prompt) = <<"y", "e", "s">>

NeedsPrompt_AgreeOnly(opts) == ~opts.agree_to_terms_of_service

\* The condition of line 81.
NeedsPrompt(opts) == ~opts.agree_to_terms_of_service /\ ~opts.rotate_key

----
\* The bouncer's responses.

Statuses == {200, 304, 404, 500}

StatusText(status) ==
    CASE status = 200 -> "200"
      [] status = 304 -> "304"
      [] status = 404 -> "404"
      [] status = 500 -> "500"
      [] OTHER -> "0"

ReasonOf(status) ==
    CASE status = 200 -> "OK"
      [] status = 304 -> "Not Modified"
      [] status = 404 -> "Not Found"
      [] status = 500 -> "Internal Server Error"
      [] OTHER -> ""

MsgTexts == {<<>>, <<"invalid org id">>}

MsgAbsent == [t |-> "absent", s |-> <<>>]

MsgValues == {MsgAbsent, [t |-> "nonstr", s |-> <<>>]} \cup { [t |-> "str", s |-> m] : m \in MsgTexts }

\* JSON values of the created field: absent, true, false, 0, 1, a non-empty string, null.
CreatedValues == {"absent", "true", "false", "zero", "one", "string", "null"}

\* Python truthiness of a JSON value, as `if response.json()["created"]:` uses it.
CreatedTruthy(c) == c \in {"true", "one", "string"}

NonJsonBody == [kind |-> "nonjson", msg |-> MsgAbsent, created |-> "absent"]

\* A JSON document that is not an object (a list, a number, a string, null).
JsonOtherBody == [kind |-> "json_other", msg |-> MsgAbsent, created |-> "absent"]

Bodies == {NonJsonBody, JsonOtherBody}
          \cup { [kind |-> "json_dict", msg |-> m, created |-> c] : m \in MsgValues, c \in CreatedValues }

Responses == { [status |-> st, reason |-> ReasonOf(st), body |-> b] : st \in Statuses, b \in Bodies }

NoResponse == [status |-> 0, reason |-> "", body |-> NonJsonBody]

\* requests.Response.raise_for_status raises for 4xx and 5xx.
IsErrorStatus(status) == status >= 400 /\ status < 600

\* The HTTPError raise_for_status builds: status, kind, reason phrase and URL.
HTTPError(resp, url) ==
    [type |-> "HTTPError",
     msg |-> <<StatusText(resp.status),
               IF resp.status < 500 THEN " Client Error: " ELSE " Server Error: ",
               resp.reason, " for url: ">> \o url]

\* Response.json() followed by a subscript with a string key: the exception
\* it raises, or NoError.
SubscriptError(body, present) ==
    IF body.kind = "nonjson" THEN [type |-> "JSONDecodeError", msg |-> <<"Expecting value">>]
    ELSE IF body.kind # "json_dict" THEN [type |-> "TypeError", msg |-> <<"indices must be integers">>]
    ELSE IF ~present THEN [type |-> "KeyError", msg |-> <<"key">>]
    ELSE NoError

BouncerError_NoPrefix(resp, url) ==
    IF resp.body.kind = "json_dict" /\ resp.body.msg.t = "str"
    THEN CommandError(resp.body.msg.s)
    ELSE HTTPError(resp, url)

BouncerError_Swallow(resp, url) ==
    IF resp.body.kind = "json_dict" /\ resp.body.msg.t = "str"
    THEN CommandError(<<"Error: ">> \o resp.body.msg.s)
    ELSE CommandError(<<"Error: ">>)

\* Lines 131-138: the exception that leaves the except block.
BouncerError(resp, url) ==
    IF resp.body.kind = "nonjson" THEN HTTPError(resp, url)
    ELSE IF SubscriptError(resp.body, resp.body.msg.t # "absent") # NoError
         THEN SubscriptError(resp.body, resp.body.msg.t # "absent")
    ELSE IF resp.body.msg.t # "str"
         THEN [type |-> "TypeError", msg |-> <<"can only concatenate str">>]
    ELSE CommandError(<<"Error: ">> \o resp.body.msg.s)

----
\* The state after argument parsing, before handle() runs.

OrgIds == {None, Some(<<>>), Some(<<"org-id">>)}

\* The configured key: unset, empty, a short hand-written one, or a generated one.
OrgKeys == {NoKey, EmptyKey, Key(32, 1)} \cup get_random_string(KeyLength)

BouncerUrls == {None, Some(<<>>), Some(<<"https://push.zulipchat.com">>)}

Options == [agree_to_terms_of_service : BOOLEAN, rotate_key : BOOLEAN]

NoRequest == [unset |-> TRUE]

Init ==
    /\ DEVELOPMENT \in BOOLEAN
    /\ requiredSettingsSet \in BOOLEAN
    /\ ZULIP_ORG_ID \in OrgIds
    /\ ZULIP_ORG_KEY \in OrgKeys
    /\ PUSH_NOTIFICATION_BOUNCER_URL \in BouncerUrls
    /\ configuredBouncerUrl = PUSH_NOTIFICATION_BOUNCER_URL
    /\ options \in Options
    /\ pc = "check_config"
    /\ request = NoRequest
    /\ out = <<>>
    /\ reads = <<>>
    /\ posts = <<>>
    /\ response = NoResponse
    /\ persistCalls = <<>>
    /\ secretsFile = ZULIP_ORG_KEY
    /\ err = NoError
    /\ exit = -1

----
\* Ways handle() ends.

\* An exception leaves handle(): the process exits with status 1.
Raise(e) ==
    /\ pc' = "done"
    /\ err' = e
    /\ exit' = 1

\* handle() returns: the process exits with status 0.
Return ==
    /\ pc' = "done"
    /\ err' = err
    /\ exit' = 0

Goto(label) ==
    /\ pc' = label
    /\ UNCHANGED <<err, exit>>

----
\* The steps of handle().

\* Lines 39-40.
CheckConfig ==
    /\ pc = "check_config"
    /\ IF ~DEVELOPMENT /\ ~requiredSettingsSet
       THEN Raise(CommandError(RequiredSettingMsg))
       ELSE Goto("check_org_id")
    /\ UNCHANGED <<settingsVars, PUSH_NOTIFICATION_BOUNCER_URL, request, out, reads,
                   posts, response, persistCalls, secretsFile>>

\* Lines 42-45.
CheckOrgId ==
    /\ pc = "check_org_id"
    /\ IF ~Truthy(ZULIP_ORG_ID)
       THEN Raise(CommandError(MissingOrgIdMsg))
       ELSE Goto("check_org_key")
    /\ UNCHANGED <<settingsVars, PUSH_NOTIFICATION_BOUNCER_URL, request, out, reads,
                   posts, response, persistCalls, secretsFile>>

\* Lines 46-49.
CheckOrgKey ==
    /\ pc = "check_org_key"
    /\ IF ~KeyTruthy(ZULIP_ORG_KEY)
       THEN Raise(CommandError(MissingOrgKeyMsg))
       ELSE Goto("check_bouncer_url")
    /\ UNCHANGED <<settingsVars, PUSH_NOTIFICATION_BOUNCER_URL, request, out, reads,
                   posts, response, persistCalls, secretsFile>>

\* Lines 50-59.
CheckBouncerUrl ==
    /\ pc = "check_bouncer_url"
    /\ IF PUSH_NOTIFICATION_BOUNCER_URL.isNone
       THEN IF DEVELOPMENT
            THEN /\ PUSH_NOTIFICATION_BOUNCER_URL' = Some(EXTERNAL_URI_SCHEME \o EXTERNAL_HOST)
                 /\ Goto("build_request")
            ELSE /\ Raise(CommandError(MissingBouncerUrlMsg))
                 /\ UNCHANGED PUSH_NOTIFICATION_BOUNCER_URL
       ELSE /\ Goto("build_request")
            /\ UNCHANGED PUSH_NOTIFICATION_BOUNCER_URL
    /\ UNCHANGED <<settingsVars, request, out, reads, posts, response, persistCalls,
                   secretsFile>>

\* Lines 61-66.
BaseRequest ==
    [zulip_org_id |-> ZULIP_ORG_ID.s,
     zulip_org_key |-> ZULIP_ORG_KEY,
     hostname |-> EXTERNAL_HOST,
     contact_email |-> ZULIP_ADMINISTRATOR]

BuildRequest_ShortKey ==
    /\ pc = "build_request"
    /\ IF options.rotate_key
       THEN \E k \in get_random_string(32) :
                request' = BaseRequest @@ [new_org_key |-> k]
       ELSE request' = BaseRequest
    /\ Goto("print_disclosure")
    /\ UNCHANGED <<settingsVars, PUSH_NOTIFICATION_BOUNCER_URL, out, reads, posts,
                   response, persistCalls, secretsFile>>

\* Lines 61-68.
BuildRequest ==
    /\ pc = "build_request"
    /\ IF options.rotate_key
       THEN \E k \in get_random_string(KeyLength) :
                request' = BaseRequest @@ [new_org_key |-> k]
       ELSE request' = BaseRequest
    /\ Goto("print_disclosure")
    /\ UNCHANGED <<settingsVars, PUSH_NOTIFICATION_BOUNCER_URL, out, reads, posts,
                   response, persistCalls, secretsFile>>

PrintDisclosure_SkipGate ==
    /\ pc = "print_disclosure"
    /\ out' = Append(out, DisclosureMsg(request))
    /\ Goto("post")
    /\ UNCHANGED <<settingsVars, PUSH_NOTIFICATION_BOUNCER_URL, request, reads, posts,
                   response, persistCalls, secretsFile>>

\* Lines 70-79.
PrintDisclosure ==
    /\ pc = "print_disclosure"
    /\ out' = Append(out, DisclosureMsg(request))
    /\ Goto("consent")
    /\ UNCHANGED <<settingsVars, PUSH_NOTIFICATION_BOUNCER_URL, request, reads, posts,
                   response, persistCalls, secretsFile>>

\* Lines 81-92.  input() writes the prompt, then returns a line or raises
\* EOFError when standard input is at its end.
ConsentGate ==
    /\ pc = "consent"
    /\ IF NeedsPrompt(options)
       THEN \/ \E tos_prompt \in InputLines :
                 /\ reads' = Append(reads, tos_prompt)
                 /\ out' = out \o <<PromptMsg, BlankMsg>>
                 /\ IF ~ConsentAccepts(tos_prompt) THEN Return ELSE Goto("post")
            \/ /\ out' = Append(out, PromptMsg)
               /\ Raise([type |-> "EOFError", msg |-> <<"EOF when reading a line">>])
               /\ UNCHANGED reads
       ELSE /\ Goto("post")
            /\ UNCHANGED <<out, reads>>
    /\ UNCHANGED <<settingsVars, PUSH_NOTIFICATION_BOUNCER_URL, request, posts, response,
                   persistCalls, secretsFile>>

\* Line 120.
RegistrationUrl == PUSH_NOTIFICATION_BOUNCER_URL.s \o RegisterPath

Post_Retry ==
    /\ pc = "post"
    /\ posts' = Append(posts, [url |-> RegistrationUrl, params |-> request])
    /\ \/ /\ IF Len(posts) = 0
             THEN Goto("post")
             ELSE Raise(CommandError(NetworkErrorMsg(PUSH_NOTIFICATION_BOUNCER_URL.s)))
          /\ UNCHANGED response
       \/ \E resp \in Responses :
            /\ response' = resp
            /\ Goto("raise_for_status")
    /\ UNCHANGED <<settingsVars, PUSH_NOTIFICATION_BOUNCER_URL, request, out, reads,
                   persistCalls, secretsFile>>

\* Lines 94-96 and 118-128: the POST either fails in transport or returns a response.
Post ==
    /\ pc = "post"
    /\ posts' = Append(posts, [url |-> RegistrationUrl, params |-> request])
    /\ \/ /\ Raise(CommandError(NetworkErrorMsg(PUSH_NOTIFICATION_BOUNCER_URL.s)))
          /\ UNCHANGED response
       \/ \E resp \in Responses :
            /\ response' = resp
            /\ Goto("raise_for_status")
    /\ UNCHANGED <<settingsVars, PUSH_NOTIFICATION_BOUNCER_URL, request, out, reads,
                   persistCalls, secretsFile>>

\* Lines 129-140.
RaiseForStatus ==
    /\ pc = "raise_for_status"
    /\ IF IsErrorStatus(response.status)
       THEN Raise(BouncerError(response, RegistrationUrl))
       ELSE Goto("handle_response")
    /\ UNCHANGED <<settingsVars, PUSH_NOTIFICATION_BOUNCER_URL, request, out, reads,
                   posts, response, persistCalls, secretsFile>>

HandleResponse_PersistAlways ==
    /\ pc = "handle_response"
    /\ IF SubscriptError(response.body, response.body.created # "absent") # NoError
       THEN /\ Raise(SubscriptError(response.body, response.body.created # "absent"))
            /\ UNCHANGED out
       ELSE IF options.rotate_key
       THEN /\ out' = Append(out, UpdatingMsg)
            /\ Goto("persist")
       ELSE IF CreatedTruthy(response.body.created)
       THEN /\ out' = Append(out, RegisteredMsg)
            /\ Return
       ELSE /\ Goto("print_updated")
            /\ UNCHANGED out
    /\ UNCHANGED <<settingsVars, PUSH_NOTIFICATION_BOUNCER_URL, request, reads, posts,
                   response, persistCalls, secretsFile>>

\* Lines 98-105.
HandleResponse ==
    /\ pc = "handle_response"
    /\ IF SubscriptError(response.body, response.body.created # "absent") # NoError
       THEN /\ Raise(SubscriptError(response.body, response.body.created # "absent"))
            /\ UNCHANGED out
       ELSE IF CreatedTruthy(response.body.created)
       THEN /\ out' = Append(out, RegisteredMsg)
            /\ Return
       ELSE IF options.rotate_key
       THEN /\ out' = Append(out, UpdatingMsg)
            /\ Goto("persist")
       ELSE /\ Goto("print_updated")
            /\ UNCHANGED out
    /\ UNCHANGED <<settingsVars, PUSH_NOTIFICATION_BOUNCER_URL, request, reads, posts,
                   response, persistCalls, secretsFile>>

\* What subprocess.check_call can do: return, or raise because crudini
\* exited non-zero or could not be started.
PersistOutcomes == {"ok", "CalledProcessError", "FileNotFoundError"}

Persist_OldKey ==
    /\ pc = "persist"
    /\ \E outcome \in PersistOutcomes :
         /\ persistCalls' = Append(persistCalls,
                [file |-> SECRETS_FILENAME, section |-> "secrets", key |-> "zulip_org_key",
                 value |-> request.zulip_org_key, outcome |-> outcome])
         /\ IF outcome = "ok"
            THEN /\ secretsFile' = request.zulip_org_key
                 /\ Goto("print_updated")
            ELSE /\ Raise([type |-> outcome, msg |-> <<"crudini">>])
                 /\ UNCHANGED secretsFile
    /\ UNCHANGED <<settingsVars, PUSH_NOTIFICATION_BOUNCER_URL, request, out, reads,
                   posts, response>>

\* Lines 106-115.
Persist ==
    /\ pc = "persist"
    /\ \E outcome \in PersistOutcomes :
         /\ persistCalls' = Append(persistCalls,
                [file |-> SECRETS_FILENAME, section |-> "secrets", key |-> "zulip_org_key",
                 value |-> request.new_org_key, outcome |-> outcome])
         /\ IF outcome = "ok"
            THEN /\ secretsFile' = request.new_org_key
                 /\ Goto("print_updated")
            ELSE /\ Raise([type |-> outcome, msg |-> <<"crudini">>])
                 /\ UNCHANGED secretsFile
    /\ UNCHANGED <<settingsVars, PUSH_NOTIFICATION_BOUNCER_URL, request, out, reads,
                   posts, response>>

\* Line 116.
PrintUpdated ==
    /\ pc = "print_updated"
    /\ out' = Append(out, UpdatedMsg)
    /\ Return
    /\ UNCHANGED <<settingsVars, PUSH_NOTIFICATION_BOUNCER_URL, request, reads, posts,
                   response, persistCalls, secretsFile>>

Next ==
    \/ CheckConfig
    \/ CheckOrgId
    \/ CheckOrgKey
    \/ CheckBouncerUrl
    \/ BuildRequest
    \/ PrintDisclosure
    \/ ConsentGate
    \/ Post
    \/ RaiseForStatus
    \/ HandleResponse
    \/ Persist
    \/ PrintUpdated

Spec == Init /\ [][Next]_vars

\* handle() runs on one thread from top to bottom: when the input read, the
\* POST and the crudini call return, the next statement is executed.
FairSpec == Spec /\ WF_vars(Next)

----
\* Vocabulary of the properties.

Done == pc = "done"

Printed(m) == \E i \in DOMAIN out : out[i] = m

\* A message that tells the user the operation succeeded (lines 100, 105, 116).
ReportsSuccess == Printed(RegisteredMsg) \/ Printed(UpdatingMsg) \/ Printed(UpdatedMsg)

\* The consent answers that are "", "y" or "yes" up to letter case.
Affirmative ==
    {<<>>} \cup { <<a>> : a \in {"y", "Y"} }
           \cup { <<a, b, c>> : a \in {"y", "Y"}, b \in {"e", "E"}, c \in {"s", "S"} }

\* A response has arrived with a 2xx status.
SuccessStatus == response.status >= 200 /\ response.status < 300

\* A response has arrived with an error status (4xx or 5xx).
ErrorStatus == response.status >= 400

\* The POST succeeded and the response body is {"created": false}.
CreatedFalse ==
    /\ SuccessStatus
    /\ response.body.kind = "json_dict"
    /\ response.body.created = "false"

\* The persistence collaborator was called with the key sent as new_org_key
\* and returned successfully.
PersistedNewKey ==
    \E i \in DOMAIN persistCalls :
        /\ persistCalls[i].value = request.new_org_key
        /\ persistCalls[i].outcome = "ok"

PersistFailed ==
    \E i \in DOMAIN persistCalls : persistCalls[i].outcome # "ok"

ConfigErrorMsgs ==
    {MissingOrgIdMsg, MissingOrgKeyMsg, MissingBouncerUrlMsg, RequiredSettingMsg}

ConfigError == err.type = "CommandError" /\ err.msg \in ConfigErrorMsgs

NoSideEffects == posts = <<>> /\ reads = <<>> /\ persistCalls = <<>>

----
\* C1: with rotate_key set and a successful response carrying created == false,
\* no success message has been shown to the user unless the persistence call
\* with the new key has already been made and has succeeded.
C1_PersistBeforeSuccess ==
    (options.rotate_key /\ CreatedFalse /\ ReportsSuccess) => PersistedNewKey

\* C2: the prompt is read at most once, and a POST has been issued only if a
\* flag was set or the one line read was an affirmative answer.
C2_ConsentGate ==
    /\ Len(reads) <= 1
    /\ Len(posts) > 0 =>
          \/ options.agree_to_terms_of_service
          \/ options.rotate_key
          \/ (Len(reads) = 1 /\ reads[1] \in Affirmative)

C2_Witness ==
    /\ ~options.agree_to_terms_of_service
    /\ ~options.rotate_key
    /\ Len(posts) = 1
    /\ reads = << <<"Y", "E", "S">> >>

\* C3 (as stated): whenever the org id, the org key or the bouncer URL is unset
\* or empty, the invocation makes no network call, reads no input, calls no
\* persistence, and ends with a configuration error, in either deployment mode.
C3_MissingConfigFails ==
    (\/ ZULIP_ORG_ID \in {None, Some(<<>>)}
     \/ ZULIP_ORG_KEY \in {NoKey, EmptyKey}
     \/ configuredBouncerUrl \in {None, Some(<<>>)})
    => /\ NoSideEffects
       /\ Done => (ConfigError /\ exit = 1)

\* C3 (amended): whenever the org id or the org key is unset or empty, or the
\* bouncer URL is unset outside development mode, the invocation makes no
\* network call, reads no input, calls no persistence, and ends with a
\* configuration error, whatever the flags.
C3_MissingConfigFailsAmended ==
    (\/ ZULIP_ORG_ID \in {None, Some(<<>>)}
     \/ ZULIP_ORG_KEY \in {NoKey, EmptyKey}
     \/ (configuredBouncerUrl = None /\ ~DEVELOPMENT))
    => /\ NoSideEffects
       /\ Done => (ConfigError /\ exit = 1)

C3_Witness ==
    /\ Done
    /\ ZULIP_ORG_ID = Some(<<>>)
    /\ options.rotate_key
    /\ err = CommandError(MissingOrgIdMsg)
    /\ exit = 1

\* C4: with neither flag set, once the answer has been read, the invocation
\* goes on to the POST exactly when the answer is "", "y" or "yes" up to case;
\* after any other answer it has ended with exit status 0, no error, no
\* network call and no persistence call.
C4_AffirmativeExactly ==
    (~options.agree_to_terms_of_service /\ ~options.rotate_key /\ Len(reads) = 1)
    => IF reads[1] \in Affirmative
       THEN pc = "post" \/ Len(posts) = 1
       ELSE /\ Done
            /\ exit = 0
            /\ err = NoError
            /\ posts = <<>>
            /\ persistCalls = <<>>

C4_Witness ==
    /\ ~options.agree_to_terms_of_service
    /\ ~options.rotate_key
    /\ reads = << <<"Y">> >>
    /\ Len(posts) = 1

\* C5: with rotate_key or agree_to_terms_of_service set, no input is ever read
\* and no prompt is shown, and once the request has been built the invocation
\* does not end without having issued the POST.
C5_FlagsSkipPrompt ==
    (options.rotate_key \/ options.agree_to_terms_of_service)
    => /\ reads = <<>>
       /\ ~Printed(PromptMsg)
       /\ (pc = "post" => posts = <<>>)
       /\ (pc \in {"raise_for_status", "handle_response", "persist", "print_updated"}
              => Len(posts) = 1)
       /\ (Done /\ "hostname" \in DOMAIN request => Len(posts) = 1)

C5_Witness ==
    /\ options.rotate_key
    /\ ~options.agree_to_terms_of_service
    /\ Done
    /\ Len(posts) = 1
    /\ reads = <<>>

\* C6: when the remote rotation succeeded and the persistence call failed, the
\* invocation ends with a non-zero exit, the user is never told of a success,
\* and the error differs from the network and remote-rejected errors.
C6_PersistFailureReported ==
    (options.rotate_key /\ CreatedFalse /\ PersistFailed)
    => /\ Done
       /\ exit # 0
       /\ ~ReportsSuccess
       /\ err.type \notin {"none", "CommandError", "HTTPError"}

\* C7 (as stated): after an error status whose JSON body carries msg = m, the
\* invocation has failed and the reported message is exactly m.
C7_ErrorIsExactlyMsg ==
    (Done /\ ErrorStatus /\ response.body.kind = "json_dict"
          /\ response.body.msg.t = "str")
    => /\ exit # 0
       /\ err.msg = response.body.msg.s

\* C7 (amended): after a 4xx or 5xx status whose body is a JSON object with a
\* string msg field m, the invocation has failed with a CommandError whose
\* message is "Error: " followed by m.
C7_ErrorIsPrefixedMsg ==
    (Done /\ ErrorStatus /\ response.body.kind = "json_dict"
          /\ response.body.msg.t = "str")
    => /\ exit # 0
       /\ err.type = "CommandError"
       /\ err.msg = <<"Error: ">> \o response.body.msg.s

C7_Witness ==
    /\ Done
    /\ response.status = 500
    /\ response.body.kind = "json_dict"
    /\ response.body.msg = [t |-> "str", s |-> <<"invalid org id">>]
    /\ err = CommandError(<<"Error: ", "invalid org id">>)

C9_CreatedTrueNoPersist ==
    (SuccessStatus /\ response.body.kind = "json_dict" /\ response.body.created = "true")
    => /\ persistCalls = <<>>
       /\ secretsFile = ZULIP_ORG_KEY
       /\ ~Printed(UpdatingMsg)
       /\ ~Printed(UpdatedMsg)
       /\ Done => (Printed(RegisteredMsg) /\ exit = 0 /\ err = NoError)

C9_Witness ==
    /\ Done
    /\ options.rotate_key
    /\ SuccessStatus
    /\ response.body.kind = "json_dict"
    /\ response.body.created = "true"
    /\ Printed(RegisteredMsg)

\* C10 (as stated): every request sent carries new_org_key exactly when
\* rotation was requested, and a key it carries has at least 64 characters and
\* differs from the zulip_org_key of the same request.
C10_NewKeyFreshDistinct ==
    \A i \in DOMAIN posts :
        /\ ("new_org_key" \in DOMAIN posts[i].params) <=> options.rotate_key
        /\ "new_org_key" \in DOMAIN posts[i].params =>
              /\ posts[i].params.new_org_key.len >= 64
              /\ posts[i].params.new_org_key # posts[i].params.zulip_org_key

\* C10 (amended): every request sent carries new_org_key exactly when rotation
\* was requested, and a key it carries is a generated string of 64 characters.
C10_NewKeyGenerated ==
    \A i \in DOMAIN posts :
        /\ ("new_org_key" \in DOMAIN posts[i].params) <=> options.rotate_key
        /\ "new_org_key" \in DOMAIN posts[i].params =>
              /\ ~posts[i].params.new_org_key.isNone
              /\ posts[i].params.new_org_key.len = 64

C10_Witness ==
    /\ Len(posts) = 1
    /\ options.rotate_key
    /\ "new_org_key" \in DOMAIN posts[1].params
    /\ posts[1].params.new_org_key.len = 64
    /\ posts[1].params.new_org_key # posts[1].params.zulip_org_key

----
\* Vocabulary of the later properties.

\* A response has arrived and raise_for_status let it pass.
ResponseAccepted == response # NoResponse /\ ~ErrorStatus

\* The POST was issued and ended in a transport failure: no response arrived.
TransportFailed == Done /\ Len(posts) = 1 /\ response = NoResponse

\* The token sequence sub occurs in the text msg.
Contains(msg, sub) ==
    \E i \in 1..(Len(msg) + 1) :
        /\ i + Len(sub) - 1 <= Len(msg)
        /\ SubSeq(msg, i, i + Len(sub) - 1) = sub

\* A success-status response that breaks the contract: no JSON object, no
\* created field, or a created value that is not a boolean.
ProtocolViolation ==
    /\ SuccessStatus
    /\ \/ response.body.kind # "json_dict"
       \/ response.body.created \notin {"true", "false"}

\* C11: after a success status whose body lacks created or carries a
\* non-boolean created, neither outcome message is printed, no persistence
\* call is made, and the invocation ends with an error that is not the
\* remote-rejected one.
C11_MalformedCreatedIsFatal ==
    ProtocolViolation
    => /\ ~Printed(RegisteredMsg)
       /\ ~Printed(UpdatedMsg)
       /\ persistCalls = <<>>
       /\ Done => (exit # 0 /\ err.type \notin {"none", "CommandError", "HTTPError"})

\* C12 (as stated): after a transport failure the invocation has ended with a
\* CommandError whose message carries the URL the request was sent to, with no
\* success reported and no persistence call.
C12_NetworkErrorCarriesTarget ==
    TransportFailed
    => /\ exit # 0
       /\ err.type = "CommandError"
       /\ Contains(err.msg, posts[1].url)
       /\ ~ReportsSuccess
       /\ persistCalls = <<>>

\* C12 (amended): after a transport failure the invocation has ended with a
\* CommandError whose message is the network error text around the bouncer
\* base URL, with no success reported and no persistence call.
C12_NetworkErrorCarriesBase ==
    TransportFailed
    => /\ exit # 0
       /\ err.type = "CommandError"
       /\ err.msg = <<"Network error connecting to push notifications service (">>
                    \o PUSH_NOTIFICATION_BOUNCER_URL.s \o <<")">>
       /\ ~ReportsSuccess
       /\ persistCalls = <<>>

C12_Witness ==
    /\ TransportFailed
    /\ options.rotate_key
    /\ Contains(err.msg, <<"https://push.zulipchat.com">>)
    /\ ~Contains(err.msg, RegisterPath)

\* The consent prompt was answered with something other than "", "y", "yes".
Declined == Len(reads) = 1 /\ reads[1] \notin Affirmative

\* The last line printed is one of the two confirmation messages.
ConfirmedLast ==
    /\ Len(out) > 0
    /\ out[Len(out)] \in {RegisteredMsg, UpdatedMsg}

\* C13: at the end, a declined consent has exit 0 and no confirmation; every
\* error, a protocol violation included, has a non-zero exit and a message;
\* an exit of 0 without a declined consent follows a confirmation message;
\* no invocation exits with 0 after an error.
C13_ExitFollowsOutcome ==
    Done
    => /\ Declined => (exit = 0 /\ ~Printed(RegisteredMsg) /\ ~Printed(UpdatedMsg))
       /\ err # NoError => (exit # 0 /\ err.msg # <<>>)
       /\ (ErrorStatus \/ TransportFailed \/ ProtocolViolation \/ PersistFailed)
             => (exit # 0 /\ err # NoError)
       /\ (exit = 0 /\ ~Declined) => ConfirmedLast
       /\ exit = 0 => err = NoError

\* The request that was sent carried new_org_key.
SentNewKey == Len(posts) = 1 /\ "new_org_key" \in DOMAIN posts[1].params

\* The persistence collaborator was called with the new_org_key of the
\* request that was sent, and returned successfully.
PersistedSentKey ==
    \E i \in DOMAIN persistCalls :
        /\ persistCalls[i].value = posts[1].params.new_org_key
        /\ persistCalls[i].outcome = "ok"

\* C14 (as stated): an invocation that sent new_org_key, received a success
\* status and exited with 0 has persisted exactly that key, whatever created.
C14_RotationCoordinated ==
    (Done /\ exit = 0 /\ SentNewKey /\ SuccessStatus) => PersistedSentKey

\* C14 (amended): an invocation that sent new_org_key, received a success
\* status with created == false and exited with 0 has persisted exactly that
\* key, and the secrets file holds it.
C14_RotationCoordinatedOnUpdate ==
    (Done /\ exit = 0 /\ SentNewKey /\ CreatedFalse)
    => /\ PersistedSentKey
       /\ secretsFile = posts[1].params.new_org_key

C14_Witness ==
    /\ Done
    /\ exit = 0
    /\ SentNewKey
    /\ CreatedFalse
    /\ Len(persistCalls) = 1
    /\ persistCalls[1].value = posts[1].params.new_org_key
    /\ posts[1].params.new_org_key # posts[1].params.zulip_org_key

\* C15: the secrets file is written at most once, only with rotate_key set
\* and an accepted response carrying created == false, into secrets /
\* zulip_org_key with the value sent as new_org_key; without a successful
\* write the file keeps its value.
C15_StoreWrittenOnlyOnRotation ==
    /\ Len(persistCalls) <= 1
    /\ persistCalls # <<>> =>
          /\ options.rotate_key
          /\ ResponseAccepted
          /\ response.body.kind = "json_dict"
          /\ response.body.created = "false"
          /\ SentNewKey
          /\ persistCalls[1].section = "secrets"
          /\ persistCalls[1].key = "zulip_org_key"
          /\ persistCalls[1].value = posts[1].params.new_org_key
    /\ secretsFile # ZULIP_ORG_KEY =>
          (persistCalls # <<>> /\ persistCalls[1].outcome = "ok")

\* C16: at most one POST is issued, the prompt is read and the persistence
\* collaborator called at most once each, and an error ends the invocation
\* at once: whenever an exception has been raised the invocation is over,
\* and after a failed POST nothing was persisted.
C16_NothingRetried ==
    /\ Len(posts) <= 1
    /\ Len(reads) <= 1
    /\ Len(persistCalls) <= 1
    /\ err # NoError => (Done /\ exit # 0)
    /\ (Done /\ Len(posts) = 1 /\ response = NoResponse) => persistCalls = <<>>
    /\ (err # NoError /\ ErrorStatus) => (persistCalls = <<>> /\ Len(posts) = 1)

C16_Witness ==
    /\ Done
    /\ Len(posts) = 1
    /\ response = NoResponse
    /\ err.type = "CommandError"
    /\ Len(reads) = 1

\* C17: after an error status, whatever the body, the invocation has failed
\* with the remote-rejected error (the CommandError built from msg, or the
\* HTTP error itself), no success was reported and nothing was persisted.
C17_ErrorStatusIsRemoteRejected ==
    (Done /\ ErrorStatus)
    => /\ exit # 0
       /\ err.type \in {"CommandError", "HTTPError"}
       /\ ~ReportsSuccess
       /\ persistCalls = <<>>

----
\* The states of the per-invocation state machine, read off the code.

\* Configuration checks, request construction and disclosure (lines 39-79).
Idle ==
    pc \in {"check_config", "check_org_id", "check_org_key", "check_bouncer_url",
            "build_request", "print_disclosure"}

\* At the consent gate (line 81).
ConsentPending == pc = "consent"

\* From the POST to the last statement of handle() (lines 94-116).
Requesting ==
    pc \in {"post", "raise_for_status", "handle_response", "persist", "print_updated"}

Aborted == Done /\ exit = 0 /\ posts = <<>>

Registered ==
    Done /\ exit = 0 /\ Len(posts) = 1 /\ Len(out) > 0 /\ out[Len(out)] = RegisteredMsg

Updated ==
    Done /\ exit = 0 /\ Len(posts) = 1 /\ Len(out) > 0 /\ out[Len(out)] = UpdatedMsg

Failed == Done /\ exit # 0

ExactlyOneTerminal ==
    /\ Aborted \/ Registered \/ Updated \/ Failed
    /\ ~(Aborted /\ Registered)
    /\ ~(Aborted /\ Updated)
    /\ ~(Aborted /\ Failed)
    /\ ~(Registered /\ Updated)
    /\ ~(Registered /\ Failed)
    /\ ~(Updated /\ Failed)

\* The input read did not return a line: the case the claim sets aside.
InputEnded == Failed /\ err.type = "EOFError"

\* The edges of the state machine as the claim draws it.
StatedEdges ==
    /\ Idle => (Idle' \/ ConsentPending')
    /\ ConsentPending => (Aborted' \/ Requesting' \/ InputEnded')
    /\ Requesting => (Requesting' \/ Registered' \/ Updated' \/ Failed')
    /\ ~Done

\* The edges with the exit of a configuration error added.
CodeEdges ==
    /\ Idle => (Idle' \/ ConsentPending' \/ (Failed' /\ ConfigError'))
    /\ ConsentPending => (Aborted' \/ Requesting' \/ InputEnded')
    /\ Requesting => (Requesting' \/ Registered' \/ Updated' \/ Failed')
    /\ ~Done

\* C18 (as stated): every step follows Idle, ConsentPending, then Aborted or
\* Requesting, then Registered, Updated or Failed; the invocation eventually
\* ends, in exactly one of Aborted, Registered, Updated, Failed.
C18_StateMachine ==
    /\ [][StatedEdges]_vars
    /\ [](Done => ExactlyOneTerminal)
    /\ <>Done

\* C18 (amended): as stated, with one more edge: a configuration error takes
\* the invocation from Idle straight to Failed.
C18_StateMachineWithConfigFailure ==
    /\ [][CodeEdges]_vars
    /\ [](Done => ExactlyOneTerminal)
    /\ <>Done

C18_Witness ==
    /\ Updated
    /\ Len(reads) = 1
    /\ ~options.rotate_key

====
